---- MODULE Spec2Model ----
(***************************************************************************)
(* Model of openmw_pincushion_generator (src/src/main.rs).                *)
(*                                                                         *)
(* main walks the content files; process_plugin gathers the projectile    *)
(* weapons of one plugin into a map keyed by lower-cased mesh path, and   *)
(* for every entry opens the mesh, checks the root count, normalizes the  *)
(* root, transforms the root's direct children, splices the "NC" string   *)
(* extra data onto the root and saves the stream.                         *)
(*                                                                         *)
(* f32 values are modelled by integers (no rounding); strings that the    *)
(* code converts or tests (mesh paths, ids, extensions) are sequences of  *)
(* one-character strings.                                                  *)
(***************************************************************************)
EXTENDS Integers, Sequences, FiniteSets, TLC

\* Bounds of the input meshes.
MaxChildren == 3
MaxChain == 2

\* NiLink::null, and the key of a link whose object is not in the stream.
Null == 0
Dangling == -1

VARIABLES
    args,          \* Args: the four command line values
    contentFiles,  \* config.content_files(), with what the VFS and the parser say of each
    vfsMeshes,     \* the VFS: "meshes/<path>" -> file
    fileIdx,       \* position of main's loop over the content files
    pc,            \* position inside main / process_plugin
    projectiles,   \* entries of the projectiles map not yet visited
    mesh_path,     \* key of the entry being processed
    weapon,        \* value of the entry being processed
    stream,        \* the NiStream being processed
    root,          \* key of the node `root` refers to
    iter,          \* rest of the cloned child list
    loaded,        \* the stream as NiStream::from_path returned it
    output,        \* files written by save_path: output path -> stream
    log            \* meshes opened and saved, in order, with the content file index

vars == <<args, contentFiles, vfsMeshes, fileIdx, pc, projectiles, mesh_path,
          weapon, stream, root, iter, loaded, output, log>>

----------------------------------------------------------------------------
\* Strings

UpperChars == {"A", "B", "E", "M", "O", "P", "R", "S"}

LowerChar(c) ==
    CASE c = "A" -> "a" [] c = "B" -> "b" [] c = "E" -> "e" [] c = "M" -> "m"
      [] c = "O" -> "o" [] c = "P" -> "p" [] c = "R" -> "r" [] c = "S" -> "s"
      [] OTHER -> c

\* str::to_lowercase
to_lowercase(s) == [i \in 1..Len(s) |-> LowerChar(s[i])]

\* [u8]::eq_ignore_ascii_case
eq_ignore_ascii_case(a, b) == to_lowercase(a) = to_lowercase(b)

\* str::starts_with
starts_with(s, prefix) ==
    /\ Len(prefix) <= Len(s)
    /\ SubSeq(s, 1, Len(prefix)) = prefix

VFX_ == <<"V", "F", "X", "_">>

PluginExtensions ==
    { <<"e", "s", "p">>, <<"e", "s", "m">>,
      <<"o", "m", "w", "a", "d", "d", "o", "n">>, <<"o", "m", "w", "g", "a", "m">> }

\* The extension test of main; <<>> stands for a path without extension.
IsPluginExtension(ext) ==
    /\ ext # <<>>
    /\ \E e \in PluginExtensions : eq_ignore_ascii_case(ext, e)

\* format!("meshes/{}", mesh_path)
with_prefix(path) == <<"meshes/">> \o path

\* Path::new("openmw_pincushion_generator").join(mesh_path)
output_path(path) == <<"openmw_pincushion_generator/">> \o path

----------------------------------------------------------------------------
\* Objects and streams

Vec3(x, y, z) == [x |-> x, y |-> y, z |-> z]

\* One record shape for every NiType; `kind` says which fields the object has:
\*   NiNode               NiObjectNET + NiAVObject + children
\*   NiTriShape           NiObjectNET + NiAVObject (any av-object that is not NiType::NiNode)
\*   NiMaterialProperty   NiObjectNET only
\*   NiStringExtraData    value, next
NiObject(kind, translation, rotation, scale, extra_data, children, value, next) ==
    [kind |-> kind, translation |-> translation, rotation |-> rotation,
     scale |-> scale, extra_data |-> extra_data, children |-> children,
     value |-> value, next |-> next]

NiNode_default ==
    NiObject("NiNode", Vec3(0, 0, 0), "identity", 1, Null, <<>>, "", Null)

NiStringExtraData_default ==
    NiObject("NiStringExtraData", Vec3(0, 0, 0), "identity", 1, Null, <<>>, "", Null)

IsNiObjectNET(o) == o.kind \in {"NiNode", "NiTriShape", "NiMaterialProperty"}
IsNiAVObject(o) == o.kind \in {"NiNode", "NiTriShape"}

\* A stream: objects keyed 1..Len(objects), and the root links.
NoStream == [objects |-> <<>>, roots |-> <<>>]

\* stream.objects.get(key) is Some
Has(s, link) == link \in DOMAIN s.objects

\* stream.objects.get(key) matches Some(NiType::NiNode(_))
IsNiNode(s, link) == Has(s, link) /\ s.objects[link].kind = "NiNode"

\* stream.get_mut(child) for a NiLink<NiAVObject> is Some
ResolvesAV(s, link) == Has(s, link) /\ IsNiAVObject(s.objects[link])

\* stream.insert(object): the object gets a key no link of the stream holds.
NewLink(s) == Len(s.objects) + 1
insert(s, object) == [s EXCEPT !.objects = Append(@, object)]

----------------------------------------------------------------------------
\* Transform policy

process_arrow(object, a) ==
    [object EXCEPT !.translation.y = @ + a.arrow_offset,
                   !.scale = @ * a.arrow_scale]

process_bolt_shift_z(object, a) ==
    [object EXCEPT !.translation.y = @ + a.bolt_offset,
                   !.translation.z = @ + a.bolt_offset,
                   !.scale = @ * a.bolt_scale]

process_bolt(object, a) ==
    [object EXCEPT !.translation.y = @ + a.bolt_offset,
                   !.scale = @ * a.bolt_scale]

process_throwable(object) ==
    [object EXCEPT !.scale = @ * (-1)]

\* The match on weapon.data.weapon_type inside the child loop.
ApplyWeaponType(type, object, a) ==
    CASE type = "MarksmanThrown" -> process_throwable(object)
      [] type = "Arrow" -> process_arrow(object, a)
      [] type = "Bolt" -> process_bolt(object, a)
      [] OTHER -> object

----------------------------------------------------------------------------
\* Root normalizer and extra data splicer

insert_root_parent_keep_roots(s) ==
    LET node == [NiNode_default EXCEPT !.children = s.roots]
        link == NewLink(s)
    IN  [objects |-> Append(s.objects, node), roots |-> Append(s.roots, link)]

insert_root_parent_no_children(s) ==
    LET link == NewLink(s)
    IN  [objects |-> Append(s.objects, NiNode_default), roots |-> <<link>>]

\* The stream after insert_root_parent; the returned node is at roots[1].
insert_root_parent(s) ==
    LET node == [NiNode_default EXCEPT !.children = s.roots]
        link == NewLink(s)
    IN  [objects |-> insert(s, node).objects, roots |-> <<link>>]

NormalizeRoot_always_wrap(s) == insert_root_parent(s)

\* let root = match stream.objects.get(stream.roots[0].key) { .. }
NormalizeRoot(s) ==
    IF IsNiNode(s, s.roots[1]) THEN s ELSE insert_root_parent(s)

insert_no_collision_tag_drop_next(s) ==
    LET extra_data == [NiStringExtraData_default EXCEPT !.value = "NC"]
        extra_data_link == NewLink(s)
        s1 == insert(s, extra_data)
    IN  [s1 EXCEPT !.objects[s1.roots[1]].extra_data = extra_data_link]

insert_no_collision_tag(s) ==
    LET extra_data == [NiStringExtraData_default EXCEPT !.value = "NC"]
        extra_data_link == NewLink(s)
        s1 == insert(s, extra_data)
        next_extra_data == s1.objects[s1.roots[1]].extra_data
    IN  [s1 EXCEPT !.objects[s1.roots[1]].extra_data = extra_data_link,
                   !.objects[extra_data_link].next = next_extra_data]

\* get_as_mut::<_, NiObjectNET>(stream.roots[0]) is Some, so unwrap succeeds.
TagRootResolves(s) ==
    /\ Len(s.roots) >= 1
    /\ Has(s, s.roots[1])
    /\ IsNiObjectNET(s.objects[s.roots[1]])

----------------------------------------------------------------------------
\* Gathering the projectiles of a plugin

ProjectileTypes == {"MarksmanThrown", "Arrow", "Bolt"}

\* The filter_map closure returns Some.
IsProjectile(w) ==
    /\ ~starts_with(w.id, VFX_)
    /\ w.weapon_type \in ProjectileTypes

MeshKey_identity(w) == w.mesh

\* Mesh path as key for de-duplication.
MeshKey(w) == to_lowercase(w.mesh)

\* collect() into a HashMap: a later record with the same key replaces an earlier one.
GatherProjectiles(weapons) ==
    LET qual == {i \in 1..Len(weapons) : IsProjectile(weapons[i])}
        keys == {MeshKey(weapons[i]) : i \in qual}
        last(k) == CHOOSE i \in qual :
                      /\ MeshKey(weapons[i]) = k
                      /\ \A j \in qual : MeshKey(weapons[j]) = k => j <= i
    IN  [k \in keys |-> weapons[last(k)]]

\* The map without one entry.
Without(m, k) == [x \in DOMAIN m \ {k} |-> m[x]]

\* vfs.get_file: the VFS compares paths without regard to case.
vfs_get_file(path) == vfsMeshes[to_lowercase(path)]

ValidRootCount_at_least_one(s) == Len(s.roots) >= 1

\* stream.roots.len() != 1 is false
ValidRootCount(s) == Len(s.roots) = 1

----------------------------------------------------------------------------
\* Inputs: meshes, plugins, configuration

ChainValue(i) ==
    CASE i = 1 -> "v1" [] i = 2 -> "v2" [] i = 3 -> "v3" [] OTHER -> "vN"

\* Links a child list of the decoded root may hold: null, a key without an
\* object, and the keys of objects 2 and 3 (in any order, repeated or not).
ChildLinks == {Null, Dangling, 2, 3}
ChildLists == UNION {[1..k -> ChildLinks] : k \in 0..MaxChildren}
ChildKinds == {"NiTriShape", "NiNode", "NiMaterialProperty"}

\* A decoded mesh:
\*   1  an object of kind rk: children ch when it is a NiNode, and a chain of
\*      n string extra data (objects 5..4+n) when it is a NiObjectNET
\*   2  an object of kind ck with one extra data (object 4) and, when it is a
\*      NiNode, the child 3
\*   3  a NiTriShape
\*   4  a NiStringExtraData
MkStore(roots, rk, ch, ck, n) ==
    LET net1 == rk \in {"NiNode", "NiTriShape", "NiMaterialProperty"}
        net2 == ck \in {"NiNode", "NiTriShape", "NiMaterialProperty"}
        o1 == NiObject(rk, Vec3(1, 2, 3), "rot1", 2,
                       IF net1 /\ n > 0 THEN 5 ELSE Null,
                       IF rk = "NiNode" THEN ch ELSE <<>>, "", Null)
        o2 == NiObject(ck, Vec3(4, 5, 6), "rot2", 3,
                       IF net2 THEN 4 ELSE Null,
                       IF ck = "NiNode" THEN <<3>> ELSE <<>>, "", Null)
        o3 == NiObject("NiTriShape", Vec3(0, 0, 0), "identity", 1, Null, <<>>, "", Null)
        o4 == [NiStringExtraData_default EXCEPT !.value = "c"]
        chain == [i \in 1..n |->
                    [NiStringExtraData_default EXCEPT
                        !.value = ChainValue(i),
                        !.next = IF i < n THEN 4 + i + 1 ELSE Null]]
    IN  [objects |-> <<o1, o2, o3, o4>> \o chain, roots |-> roots]

\* Meshes with one root that is a NiNode.
NodeRootStores ==
    {MkStore(<<1>>, "NiNode", ch, ck, n) :
        ch \in ChildLists, ck \in ChildKinds, n \in 0..MaxChain}

\* Meshes with one root that is not a NiNode: another av-object, an object
\* without transform, an extra data, a null link, a link without object.
OtherRootStores ==
    {MkStore(<<1>>, rk, <<>>, ck, n) :
        rk \in {"NiTriShape", "NiMaterialProperty"}, ck \in ChildKinds, n \in 0..MaxChain}
    \cup {MkStore(r, "NiNode", <<2, 3>>, "NiTriShape", 1) :
            r \in {<<4>>, <<Null>>, <<Dangling>>}}

\* Meshes whose root count is not 1.
BadRootCountStores ==
    {MkStore(r, rk, <<2, 3>>, "NiTriShape", 1) :
        r \in {<<>>, <<1, 2>>, <<2, 1>>, <<1, 2, 3>>}, rk \in {"NiNode", "NiTriShape"}}

MeshStores == NodeRootStores \cup OtherRootStores \cup BadRootCountStores

File(status, s) == [status |-> status, stream |-> s]
Missing == File("missing", NoStream)
Undecodable == File("undecodable", NoStream)
MeshFiles == {Missing, Undecodable} \cup {File("ok", s) : s \in MeshStores}

Weapon(id, weapon_type, mesh) == [id |-> id, weapon_type |-> weapon_type, mesh |-> mesh]
NoWeapon == Weapon(<<>>, "", <<>>)

Ar == <<"a", "r">>
Bo == <<"b", "o">>

WArrow == Weapon(<<"a", "1">>, "Arrow", <<"A", "r">>)
WBolt == Weapon(<<"b", "1">>, "Bolt", <<"a", "R">>)
WThrown == Weapon(<<"t", "1">>, "MarksmanThrown", <<"B", "o">>)
WVfx == Weapon(<<"V", "F", "X", "_", "a">>, "Arrow", Bo)
WBlade == Weapon(<<"s", "1">>, "LongBladeOneHand", Ar)

WeaponSet == {WArrow, WBolt, WThrown, WVfx}

\* Every ordering of every subset of WeaponSet.
WeaponLists ==
    {ws \in UNION {[1..k -> WeaponSet] : k \in 0..Cardinality(WeaponSet)} :
        \A i, j \in DOMAIN ws : i # j => ws[i] # ws[j]}

\* A content file: its extension, whether vfs.get_file finds it, whether
\* Plugin::from_path_filtered parses it, and its weapon records in order.
ContentFile(ext, in_vfs, parses, weapons) ==
    [ext |-> ext, in_vfs |-> in_vfs, parses |-> parses, weapons |-> weapons]

Esp == <<"e", "s", "p">>

RunContentFiles ==
    {ContentFile(Esp, TRUE, TRUE, ws) : ws \in WeaponLists}
    \cup { ContentFile(<<"E", "S", "M">>, TRUE, TRUE, <<WBlade, WArrow>>),
           ContentFile(<<"O", "m", "w", "A", "d", "d", "o", "n">>, TRUE, TRUE, <<WBolt, WBlade>>),
           ContentFile(<<"t", "x", "t">>, TRUE, TRUE, <<WArrow>>),
           ContentFile(<<>>, TRUE, TRUE, <<WArrow>>),
           ContentFile(Esp, FALSE, TRUE, <<WArrow>>),
           ContentFile(Esp, TRUE, FALSE, <<WArrow>>) }

Config(ao, as, bo, bs) ==
    [arrow_offset |-> ao, arrow_scale |-> as, bolt_offset |-> bo, bolt_scale |-> bs]

Configs == {Config(8, 3, 4, 1), Config(8, 3, 4, 2), Config(2, 1, 0, 2)}

\* The meshes of the runs over several content files.
RunAr == File("ok", MkStore(<<1>>, "NiNode", <<2>>, "NiTriShape", 1))
RunBo == File("ok", MkStore(<<1, 2>>, "NiNode", <<2>>, "NiTriShape", 0))

Idle ==
    /\ projectiles = <<>>
    /\ mesh_path = <<>>
    /\ weapon = NoWeapon
    /\ stream = NoStream
    /\ root = Null
    /\ iter = <<>>
    /\ loaded = NoStream

\* One content file with one projectile weapon, over every mesh and configuration.
InitAsset ==
    /\ args \in Configs
    /\ \E t \in ProjectileTypes :
          contentFiles = <<ContentFile(Esp, TRUE, TRUE, <<Weapon(<<"p">>, t, <<"A", "R">>)>>)>>
    /\ \E f \in MeshFiles :
          vfsMeshes = (with_prefix(Ar) :> f) @@ (with_prefix(Bo) :> Missing)

\* Two content files with any weapon records, over two fixed meshes.
InitRun ==
    /\ args = Config(8, 3, 4, 2)
    /\ \E c1, c2 \in RunContentFiles : contentFiles = <<c1, c2>>
    /\ vfsMeshes = (with_prefix(Ar) :> RunAr) @@ (with_prefix(Bo) :> RunBo)

Init ==
    /\ InitAsset \/ InitRun
    /\ fileIdx = 1
    /\ pc = "main"
    /\ Idle
    /\ output = <<>>
    /\ log = <<>>

----------------------------------------------------------------------------
\* main

CurrentFile == contentFiles[fileIdx]

\* if let Some(extension) .. && (..) { if let Some(vfs_file) = vfs.get_file(file) { .. } }
IsLoadablePlugin(f) == IsPluginExtension(f.ext) /\ f.in_vfs

\* The content file has no plugin extension or is not in the VFS: next file.
SkipContentFile ==
    /\ pc = "main"
    /\ fileIdx <= Len(contentFiles)
    /\ ~IsLoadablePlugin(CurrentFile)
    /\ fileIdx' = fileIdx + 1
    /\ UNCHANGED <<args, contentFiles, vfsMeshes, pc, projectiles, mesh_path,
                   weapon, stream, root, iter, loaded, output, log>>

\* process_plugin: Plugin::from_path_filtered fails, the function returns.
ParseFailed ==
    /\ pc = "main"
    /\ fileIdx <= Len(contentFiles)
    /\ IsLoadablePlugin(CurrentFile)
    /\ ~CurrentFile.parses
    /\ fileIdx' = fileIdx + 1
    /\ UNCHANGED <<args, contentFiles, vfsMeshes, pc, projectiles, mesh_path,
                   weapon, stream, root, iter, loaded, output, log>>

\* process_plugin: the plugin parses; gather its projectile meshes.
Gather ==
    /\ pc = "main"
    /\ fileIdx <= Len(contentFiles)
    /\ IsLoadablePlugin(CurrentFile)
    /\ CurrentFile.parses
    /\ projectiles' = GatherProjectiles(CurrentFile.weapons)
    /\ pc' = "projectiles"
    /\ UNCHANGED <<args, contentFiles, vfsMeshes, fileIdx, mesh_path,
                   weapon, stream, root, iter, loaded, output, log>>

\* The loop over the projectiles is over: process_plugin returns to main.
PluginDone ==
    /\ pc = "projectiles"
    /\ DOMAIN projectiles = {}
    /\ pc' = "main"
    /\ fileIdx' = fileIdx + 1
    /\ UNCHANGED <<args, contentFiles, vfsMeshes, projectiles, mesh_path,
                   weapon, stream, root, iter, loaded, output, log>>

\* main returns.
Finish ==
    /\ pc = "main"
    /\ fileIdx > Len(contentFiles)
    /\ pc' = "done"
    /\ UNCHANGED <<args, contentFiles, vfsMeshes, fileIdx, projectiles, mesh_path,
                   weapon, stream, root, iter, loaded, output, log>>

----------------------------------------------------------------------------
\* process_plugin: one entry of the projectiles map
\* (a HashMap is visited in no particular order)

\* vfs.get_file returns None: continue.
MeshNotFound ==
    /\ pc = "projectiles"
    /\ \E k \in DOMAIN projectiles :
          /\ vfs_get_file(with_prefix(k)).status = "missing"
          /\ projectiles' = Without(projectiles, k)
    /\ UNCHANGED <<args, contentFiles, vfsMeshes, fileIdx, pc, mesh_path,
                   weapon, stream, root, iter, loaded, output, log>>

\* NiStream::from_path fails: continue.
OpenFailed ==
    /\ pc = "projectiles"
    /\ \E k \in DOMAIN projectiles :
          /\ vfs_get_file(with_prefix(k)).status = "undecodable"
          /\ projectiles' = Without(projectiles, k)
    /\ UNCHANGED <<args, contentFiles, vfsMeshes, fileIdx, pc, mesh_path,
                   weapon, stream, root, iter, loaded, output, log>>

LogEntry(ev, path) == [ev |-> ev, file |-> fileIdx, path |-> path]

\* NiStream::from_path succeeds.
OpenMesh ==
    /\ pc = "projectiles"
    /\ \E k \in DOMAIN projectiles :
          /\ vfs_get_file(with_prefix(k)).status = "ok"
          /\ projectiles' = Without(projectiles, k)
          /\ mesh_path' = k
          /\ weapon' = projectiles[k]
          /\ stream' = vfs_get_file(with_prefix(k)).stream
          /\ loaded' = vfs_get_file(with_prefix(k)).stream
          /\ log' = Append(log, LogEntry("open", k))
    /\ pc' = "opened"
    /\ UNCHANGED <<args, contentFiles, vfsMeshes, fileIdx, root, iter, output>>

\* The stream is dropped at the end of the loop body.
DropStream ==
    /\ mesh_path' = <<>>
    /\ weapon' = NoWeapon
    /\ stream' = NoStream
    /\ root' = Null
    /\ iter' = <<>>
    /\ loaded' = NoStream

\* stream.roots.len() != 1: continue.
InvalidRootCount ==
    /\ pc = "opened"
    /\ ~ValidRootCount(stream)
    /\ pc' = "projectiles"
    /\ DropStream
    /\ UNCHANGED <<args, contentFiles, vfsMeshes, fileIdx, projectiles, output, log>>

\* The node `root` refers to after the match.
NormalizedRoot(s) ==
    IF IsNiNode(s, s.roots[1]) THEN s.roots[1] ELSE NewLink(s)

\* let root = match .. { Some(NiType::NiNode(node)) => node, _ => insert_root_parent(..) }
Normalize ==
    /\ pc = "opened"
    /\ ValidRootCount(stream)
    /\ stream' = NormalizeRoot(stream)
    /\ root' = NormalizedRoot(stream)
    /\ pc' = "normalized"
    /\ UNCHANGED <<args, contentFiles, vfsMeshes, fileIdx, projectiles, mesh_path,
                   weapon, iter, loaded, output, log>>

\* root.children.clone()
CloneChildren ==
    /\ pc = "normalized"
    /\ iter' = stream.objects[root].children
    /\ pc' = "children"
    /\ UNCHANGED <<args, contentFiles, vfsMeshes, fileIdx, projectiles, mesh_path,
                   weapon, stream, root, loaded, output, log>>

SkipChild_break ==
    /\ pc = "children"
    /\ iter # <<>>
    /\ ~ResolvesAV(stream, Head(iter))
    /\ iter' = <<>>
    /\ UNCHANGED <<args, contentFiles, vfsMeshes, fileIdx, pc, projectiles, mesh_path,
                   weapon, stream, root, loaded, output, log>>

\* stream.get_mut(child) is None: continue.
SkipChild ==
    /\ pc = "children"
    /\ iter # <<>>
    /\ ~ResolvesAV(stream, Head(iter))
    /\ iter' = Tail(iter)
    /\ UNCHANGED <<args, contentFiles, vfsMeshes, fileIdx, pc, projectiles, mesh_path,
                   weapon, stream, root, loaded, output, log>>

\* stream.get_mut(child) is Some(object): the match on the weapon type.
TransformChild ==
    /\ pc = "children"
    /\ iter # <<>>
    /\ ResolvesAV(stream, Head(iter))
    /\ stream' = [stream EXCEPT !.objects[Head(iter)] =
                      ApplyWeaponType(weapon.weapon_type, @, args)]
    /\ iter' = Tail(iter)
    /\ UNCHANGED <<args, contentFiles, vfsMeshes, fileIdx, pc, projectiles, mesh_path,
                   weapon, root, loaded, output, log>>

\* insert_no_collision_tag(&mut stream)
InsertTag ==
    /\ pc = "children"
    /\ iter = <<>>
    /\ TagRootResolves(stream)
    /\ stream' = insert_no_collision_tag(stream)
    /\ pc' = "tagged"
    /\ UNCHANGED <<args, contentFiles, vfsMeshes, fileIdx, projectiles, mesh_path,
                   weapon, root, iter, loaded, output, log>>

\* create_dir_all and save_path succeed.
Save ==
    /\ pc = "tagged"
    /\ output' = (output_path(mesh_path) :> stream) @@ output
    /\ log' = Append(log, LogEntry("save", mesh_path))
    /\ pc' = "projectiles"
    /\ DropStream
    /\ UNCHANGED <<args, contentFiles, vfsMeshes, fileIdx, projectiles>>

\* create_dir_all or save_path fails: unwrap panics.
SaveFailed ==
    /\ pc = "tagged"
    /\ pc' = "panicked"
    /\ UNCHANGED <<args, contentFiles, vfsMeshes, fileIdx, projectiles, mesh_path,
                   weapon, stream, root, iter, loaded, output, log>>

Next ==
    \/ SkipContentFile
    \/ ParseFailed
    \/ Gather
    \/ PluginDone
    \/ Finish
    \/ MeshNotFound
    \/ OpenFailed
    \/ OpenMesh
    \/ InvalidRootCount
    \/ Normalize
    \/ CloneChildren
    \/ SkipChild
    \/ TransformChild
    \/ InsertTag
    \/ Save
    \/ SaveFailed

Spec == Init /\ [][Next]_vars

----------------------------------------------------------------------------
\* Vocabulary of the properties

\* The stream has one root link and it refers to a NiNode.
SingleNodeRoot(s) ==
    /\ Len(s.roots) = 1
    /\ s.roots[1] \in DOMAIN s.objects
    /\ s.objects[s.roots[1]].kind = "NiNode"

\* The stream has one root link and it does not refer to a NiNode.
SingleOtherRoot(s) ==
    /\ Len(s.roots) = 1
    /\ ~SingleNodeRoot(s)

Range(f) == {f[i] : i \in DOMAIN f}

\* The links of the metadata chain that starts at `link`, in order.
RECURSIVE ChainLinks(_, _)
ChainLinks(s, link) ==
    IF link \in DOMAIN s.objects /\ s.objects[link].kind = "NiStringExtraData"
    THEN <<link>> \o ChainLinks(s, s.objects[link].next)
    ELSE <<>>

ChainValues(s, link) ==
    LET links == ChainLinks(s, link)
    IN  [i \in DOMAIN links |-> s.objects[links[i]].value]

\* The links of the root's child list that refer to an object with a transform.
ResolvableChildren(s, r) ==
    {c \in Range(s.objects[r].children) :
        c \in DOMAIN s.objects /\ s.objects[c].kind \in {"NiNode", "NiTriShape"}}

\* How many times the link occurs in the child list.
Occurrences(list, c) == Cardinality({i \in DOMAIN list : list[i] = c})

RECURSIVE Pow(_, _)
Pow(b, k) == IF k = 0 THEN 1 ELSE b * Pow(b, k - 1)

\* The mesh being processed has passed the child loop and the splice.
Tagged == pc = "tagged"

\* Lower-cased mesh paths of the VFS.
MeshKeys == {Ar, Bo}

\* Every mesh a loadable plugin refers to, that decodes and has one root, is saved.
EveryValidMeshSaved ==
    \A i \in DOMAIN contentFiles :
        (IsPluginExtension(contentFiles[i].ext) /\ contentFiles[i].in_vfs
         /\ contentFiles[i].parses) =>
            \A w \in Range(contentFiles[i].weapons) :
                LET k == to_lowercase(w.mesh)
                    f == vfsMeshes[with_prefix(k)]
                IN  (/\ ~starts_with(w.id, VFX_)
                     /\ w.weapon_type \in {"MarksmanThrown", "Arrow", "Bolt"}
                     /\ f.status = "ok"
                     /\ Len(f.stream.roots) = 1)
                    => output_path(k) \in DOMAIN output

----------------------------------------------------------------------------
\* C1. Single-root invariant: once a mesh with exactly one root link has
\* passed the root normalization, its root sequence has exactly one entry,
\* that entry resolves to a NiNode and is the node `root` refers to; this
\* still holds while the children are transformed, after the marker is
\* spliced, and in every stream that is saved.
C1_SingleRootInvariant ==
    /\ pc \in {"normalized", "children", "tagged", "panicked"} =>
          SingleNodeRoot(stream) /\ root = stream.roots[1]
    /\ \A p \in DOMAIN output : SingleNodeRoot(output[p])

\* A mesh whose sole root was not a NiNode has been normalized, transformed and tagged.
C1_Witness ==
    /\ Tagged
    /\ SingleOtherRoot(loaded)

\* C2. Wrapping correctness: when the sole root is not a NiNode, the
\* normalization step adds exactly one object and changes no other; the new
\* object is a NiNode with identity transform and no metadata whose child
\* list is exactly [original root link]; the root sequence becomes exactly
\* [new link]; and no object, child list, metadata link or root link of the
\* stream before the step refers to the new link.
C2_WrappingCorrectness ==
    [][ (pc = "opened" /\ SingleOtherRoot(stream)) =>
          LET new == Len(stream.objects) + 1
          IN  /\ pc' = "normalized"
              /\ DOMAIN stream'.objects = DOMAIN stream.objects \cup {new}
              /\ new \notin DOMAIN stream.objects
              /\ \A k \in DOMAIN stream.objects : stream'.objects[k] = stream.objects[k]
              /\ stream'.objects[new].kind = "NiNode"
              /\ stream'.objects[new].translation = Vec3(0, 0, 0)
              /\ stream'.objects[new].rotation = "identity"
              /\ stream'.objects[new].scale = 1
              /\ stream'.objects[new].extra_data = Null
              /\ stream'.objects[new].children = <<stream.roots[1]>>
              /\ stream'.roots = <<new>>
              /\ root' = new
              /\ new \notin Range(stream.roots)
              /\ \A k \in DOMAIN stream.objects :
                    /\ new \notin Range(stream.objects[k].children)
                    /\ stream.objects[k].extra_data # new
                    /\ stream.objects[k].next # new
    ]_vars

\* A mesh whose sole root is an av-object that is not a NiNode has been wrapped.
C2_Witness ==
    /\ pc = "normalized"
    /\ SingleOtherRoot(loaded)
    /\ loaded.objects[1].kind = "NiTriShape"
    /\ stream.objects[root].children = <<1>>
    /\ root = Len(loaded.objects) + 1

\* C3. Metadata chain preservation: if the root's metadata chain holds the
\* records [l1..lN] with values [v1..vN] before insert_no_collision_tag,
\* then afterwards the chain from the root's head has N+1 records, the head
\* is a new record with value "NC", the records after it are l1..lN in the
\* same order, and each of them is unchanged (same value, same next link).
C3_ChainPreserved ==
    [][ (pc = "children" /\ iter = <<>>) =>
          LET r == stream.roots[1]
              before == ChainLinks(stream, stream.objects[r].extra_data)
              after == ChainLinks(stream', stream'.objects[r].extra_data)
          IN  /\ pc' = "tagged"
              /\ Len(after) = Len(before) + 1
              /\ after[1] \notin DOMAIN stream.objects
              /\ stream'.objects[after[1]].value = "NC"
              /\ Tail(after) = before
              /\ ChainValues(stream', stream'.objects[r].extra_data)
                    = <<"NC">> \o ChainValues(stream, stream.objects[r].extra_data)
              /\ \A i \in DOMAIN before :
                    stream'.objects[before[i]] = stream.objects[before[i]]
    ]_vars

\* The marker has been spliced in front of a chain of MaxChain records.
C3_Witness ==
    /\ Tagged
    /\ Len(ChainLinks(loaded, loaded.objects[1].extra_data)) = MaxChain
    /\ root = 1
    /\ Len(ChainValues(stream, stream.objects[root].extra_data)) = MaxChain + 1
    /\ ChainValues(stream, stream.objects[root].extra_data)[2] = "v1"

\* C4. Skip-on-violation: for a mesh whose decoded root sequence has 0 or 2
\* or more entries, the step after opening it writes no file, logs no save,
\* drops the stream unprocessed, and leaves the loop at the next entry with
\* the remaining entries untouched; no file is ever written for such a
\* mesh; and when main returns, every mesh with one root that a plugin
\* refers to has been saved, whatever meshes were rejected before it.
C4_SkipOnViolation ==
    [][ /\ (pc = "opened" /\ Len(stream.roots) # 1) =>
              /\ pc' = "projectiles"
              /\ output' = output
              /\ log' = log
              /\ stream' = NoStream
              /\ projectiles' = projectiles
              /\ fileIdx' = fileIdx
        /\ \A k \in MeshKeys :
              (/\ vfsMeshes[with_prefix(k)].status = "ok"
               /\ Len(vfsMeshes[with_prefix(k)].stream.roots) # 1)
              => output_path(k) \notin DOMAIN output'
        /\ pc' = "done" => EveryValidMeshSaved'
    ]_vars

\* A mesh with two roots was rejected and, in the same plugin, the next mesh
\* has been processed up to the save.
C4_Witness ==
    /\ Tagged
    /\ mesh_path = Ar
    /\ Len(vfsMeshes[with_prefix(Bo)].stream.roots) = 2
    /\ \E i \in DOMAIN log :
          log[i].ev = "open" /\ log[i].path = Bo /\ log[i].file = fileIdx

\* C5 as claimed. Deduplication over the whole run: no lower-cased mesh
\* path is opened twice or saved twice, in the same or in different content
\* files.
C5_NoMeshTwiceInRun ==
    \A i, j \in DOMAIN log :
        (i < j /\ log[i].ev = log[j].ev) =>
            to_lowercase(log[i].path) # to_lowercase(log[j].path)

\* C5 as amended. Deduplication within one content file: during one call of
\* process_plugin no lower-cased mesh path is opened twice or saved twice,
\* however many qualifying weapon records of that plugin refer to it and
\* whatever the case of their paths.
C5_NoMeshTwiceInPlugin ==
    \A i, j \in DOMAIN log :
        (i < j /\ log[i].ev = log[j].ev /\ log[i].file = log[j].file) =>
            to_lowercase(log[i].path) # to_lowercase(log[j].path)

\* A plugin with two qualifying records whose paths differ only in case has
\* been processed and the mesh saved.
C5_Witness ==
    /\ pc = "main"
    /\ fileIdx = 2
    /\ contentFiles[1].ext = Esp
    /\ contentFiles[1].weapons = <<WArrow, WBolt>>
    /\ \E i \in DOMAIN log : log[i] = [ev |-> "save", file |-> 1, path |-> Ar]

\* C6 as claimed. Bolt transform: when a mesh processed for a Bolt has passed
\* the child loop, every resolvable direct child of the root has its y
\* translation shifted by exactly bolt_offset, x and z unchanged, and its
\* scale unchanged, whatever bolt_scale is.
C6_BoltShiftOnly ==
    (Tagged /\ weapon.weapon_type = "Bolt") =>
        \A c \in ResolvableChildren(stream, root) :
            /\ stream.objects[c].translation =
                  [loaded.objects[c].translation EXCEPT !.y = @ + args.bolt_offset]
            /\ stream.objects[c].scale = loaded.objects[c].scale

ExpectedChild(o, type, a, k) ==
    LET offset == CASE type = "Arrow" -> a.arrow_offset
                    [] type = "Bolt" -> a.bolt_offset
                    [] OTHER -> 0
        factor == CASE type = "Arrow" -> a.arrow_scale
                    [] type = "Bolt" -> a.bolt_scale
                    [] OTHER -> 0 - 1
    IN  [o EXCEPT !.translation.y = @ + k * offset, !.scale = @ * Pow(factor, k)]

\* The root's child list holds a link that is null, refers to no object, or
\* refers to an object without transform.
HasUnresolvableChild(s, r) ==
    \E i \in DOMAIN s.objects[r].children :
        s.objects[r].children[i] \notin ResolvableChildren(s, r)

\* C8. Unresolvable child tolerance: when the root's child list holds a link
\* that is null, dangling or refers to an object without transform, the
\* child loop still runs to the end of the list, every resolvable child in
\* the list (before or after that link) has received the transform of the
\* weapon's category once per occurrence, the marker is spliced on the root,
\* the only abort is a failing save, and when main returns every mesh with
\* one root has been saved.
C8_UnresolvableChildTolerance ==
    /\ (pc \in {"tagged", "panicked"} /\ HasUnresolvableChild(stream, root)) =>
          /\ iter = <<>>
          /\ \A c \in ResolvableChildren(stream, root) :
                stream.objects[c] =
                    ExpectedChild(loaded.objects[c], weapon.weapon_type, args,
                                  Occurrences(stream.objects[root].children, c))
          /\ stream.objects[root].extra_data \in DOMAIN stream.objects
          /\ stream.objects[root].extra_data \notin DOMAIN loaded.objects
          /\ stream.objects[stream.objects[root].extra_data].value = "NC"
    /\ pc = "done" => EveryValidMeshSaved

\* A child list with a resolvable child before and after a null link has
\* been processed (here for an arrow) and the mesh is about to be saved.
C8_Witness ==
    /\ Tagged
    /\ weapon.weapon_type = "Arrow"
    /\ stream.objects[root].children = <<2, Null, 3>>
    /\ loaded.objects[2].kind = "NiTriShape"
    /\ stream.objects[3].translation.y = loaded.objects[3].translation.y + args.arrow_offset
    /\ stream.objects[2].scale = loaded.objects[2].scale * args.arrow_scale

\* C9. Fast path of normalization: when the sole root is already a NiNode,
\* the normalization step leaves the whole stream unchanged (no object
\* inserted; root sequence, child lists and transforms as before) and `root`
\* refers to that root; and the child list that is then cloned and visited
\* is the child list the decoded root had.
C9_FastPath ==
    [][ /\ (pc = "opened" /\ SingleNodeRoot(stream)) =>
              /\ pc' = "normalized"
              /\ stream' = stream
              /\ stream' = loaded
              /\ root' = stream.roots[1]
        /\ (pc = "normalized" /\ SingleNodeRoot(loaded)) =>
              /\ pc' = "children"
              /\ iter' = loaded.objects[loaded.roots[1]].children
              /\ stream' = loaded
    ]_vars

\* A NiNode root with children has been normalized and its child list cloned.
C9_Witness ==
    /\ pc = "children"
    /\ SingleNodeRoot(loaded)
    /\ root = 1
    /\ iter = <<3, 2, 2>>
    /\ Len(stream.objects) = Len(loaded.objects)

\* C10. Frame of one mesh's processing: when a mesh with one root has passed
\* the child loop and the splice, every object the decoded stream had keeps
\* its kind, rotation, x and z translation, child list, value and next
\* link; it keeps its metadata head unless it is the root; it keeps its y
\* translation and scale unless it is a direct child of the root; the only
\* new objects are the "NC" record and, when the root was wrapped, the new
\* root; and the root is the only object that refers to a new object.
C10_Frame ==
    Tagged =>
        LET old == DOMAIN loaded.objects
            kids == Range(stream.objects[root].children)
            tag == stream.objects[root].extra_data
        IN  /\ old \subseteq DOMAIN stream.objects
            /\ \A k \in old :
                  LET o == loaded.objects[k]
                      o2 == stream.objects[k]
                  IN  /\ o2.kind = o.kind
                      /\ o2.rotation = o.rotation
                      /\ o2.translation.x = o.translation.x
                      /\ o2.translation.z = o.translation.z
                      /\ o2.children = o.children
                      /\ o2.value = o.value
                      /\ o2.next = o.next
                      /\ k # root => o2.extra_data = o.extra_data
                      /\ k \notin kids => o2.translation = o.translation /\ o2.scale = o.scale
            /\ root \notin kids
            /\ tag \in DOMAIN stream.objects \ old
            /\ stream.objects[tag].kind = "NiStringExtraData"
            /\ stream.objects[tag].value = "NC"
            /\ DOMAIN stream.objects \ old = {tag} \cup ({root} \ old)
            /\ \A k \in DOMAIN stream.objects \ {root} :
                  /\ stream.objects[k].extra_data \in old \cup {Null}
                  /\ stream.objects[k].next \in old \cup {Null}
                  /\ Range(stream.objects[k].children) \subseteq old \cup {Null, Dangling}
            /\ Range(stream.objects[root].children) \subseteq old \cup {Null, Dangling}

\* A NiNode root with a metadata chain, whose child 2 is a NiNode with its own
\* metadata and its own child 3, has been processed for a bolt: the child
\* moved and the grandchild did not.
C10_Witness ==
    /\ Tagged
    /\ weapon.weapon_type = "Bolt"
    /\ args.bolt_offset = 4
    /\ root = 1
    /\ stream.objects[1].children = <<2>>
    /\ stream.objects[2].children = <<3>>
    /\ loaded.objects[1].extra_data = 5
    /\ stream.objects[2].translation.y = loaded.objects[2].translation.y + 4
    /\ stream.objects[2].extra_data = 4
    /\ stream.objects[3] = loaded.objects[3]

====
